---------------------------- MODULE Spec2Model ----------------------------
(***************************************************************************)
(* A model of dicom-topng: src/main.py (conversion, batch driver, CSV      *)
(* export, metadata loop, command line) and src/utils/text_reader.py       *)
(* (metadata reader and the dcmodify rewrite).  Each function has its own  *)
(* specification (SpecConvert, SpecNorm, SpecBatch, SpecStudy, SpecMeta,   *)
(* SpecCsv) over the shared state, and SpecCli runs them in the sequence   *)
(* of a command-line run; the variables a specification does not use stay  *)
(* at their idle values.                                                   *)
(*                                                                         *)
(* Conventions.                                                            *)
(*   - A Python str that the code inspects (paths, file names, the         *)
(*     acquisition description) is a sequence of one-character strings, so *)
(*     that endswith / lower / splitext / join / "in" are computed and not *)
(*     assumed.  Path functions follow posixpath.                          *)
(*   - Optional[T] is a sequence of length <= 1: None is <<>>, a value v   *)
(*     is <<v>>.                                                           *)
(*   - A pixel array is the flattened sequence of its integer samples; its *)
(*     shape is its length (every operation of the code is elementwise or  *)
(*     a global min/max).                                                  *)
(***************************************************************************)
EXTENDS Integers, Sequences, FiniteSets, TLC

VARIABLES
    \* ---- dicom_to_png (one call) ----
    dicom_path,        \* argument: path of the input DICOM file
    output_path,       \* argument: Optional output path
    window_center,     \* argument: Optional[int]
    window_width,      \* argument: Optional[int]
    disk,              \* file system: DICOM path -> file content
    dirs,              \* file system: the directories that exist
    pngs,              \* file system: PNG path -> [pixels, source] written
    outcome,           \* what the call did: returned a path or raised
    \* ---- batch_convert_dicom_to_png ----
    input_directory,   \* argument
    output_directory,  \* argument: Optional output directory
    listing,           \* os.listdir(input_directory), in the order returned
    idx,               \* number of listing entries the loop has consumed
    converted_files,   \* list of output paths
    dicom_files,       \* list of input paths
    attempts,          \* history: the input paths handed to dicom_to_png
    bpc,               \* position of the batch driver
    \* ---- DicomTextReader / add_metadata_to_files ----
    modfiy,            \* argument of DicomTextReader (spelt as in the code)
    dcmodify,          \* environment: "missing", "broken" or "ok"
    calls,             \* history: the subprocess invocations
    results,           \* history: the outcome of each reader constructed
    midx,              \* number of files add_metadata_to_files has consumed
    mpc,               \* position of add_metadata_to_files
    log,               \* the log entries written
    \* ---- write_to_csv (its dicom_path argument is dicom_path above) ----
    png_files,         \* argument: list of PNG paths
    files,             \* argument: the input was a list of files
    save_path,         \* argument: Optional directory for the CSV
    csvs,              \* file system: CSV path -> [header, rows]
    cidx,              \* number of PNG paths the row loop has consumed
    cpc,               \* position of write_to_csv
    \* ---- the command line: main and its two handlers ----
    args,              \* the parsed arguments
    cli,               \* position of the run
    pidx,              \* number of paths process_files has consumed
    invalid_files,     \* process_files: the paths that are not files
    backups,           \* file system: the .bak files that exist
    didx,              \* number of files delete_backup_files has consumed
    dpc,               \* position of delete_backup_files
    printed            \* what the run printed

convVars  == <<dicom_path, output_path, window_center, window_width, outcome>>
fsVars    == <<disk, dirs, pngs>>
batchVars == <<input_directory, output_directory, listing, idx,
               converted_files, dicom_files, attempts, bpc>>
metaVars  == <<modfiy, dcmodify, calls, results, midx, mpc>>
csvVars   == <<png_files, files, save_path, csvs, cidx, cpc>>
cliVars   == <<args, cli, pidx, invalid_files, backups, didx, dpc, printed>>
vars      == <<convVars, fsVars, batchVars, metaVars, log, csvVars, cliVars>>

----------------------------------------------------------------------------
(* Bounds of the model. *)

MaxLen == 3        \* longest pixel array drawn
MaxPix == 3        \* largest sample value drawn (samples are -1..MaxPix)
MaxW   == 4        \* largest window width drawn (widths are -1..MaxW)
MaxFiles == 3      \* most entries in a directory listing

----------------------------------------------------------------------------
(* Python values. *)

None == <<>>
Some(v) == <<v>>
IsNone(o) == o = <<>>
Val(o) == o[1]

\* A sequence of characters, written as the string it stands for.
Upper == <<"A","B","C","D","E","F","G","H","I","J","K","L","M",
           "N","O","P","Q","R","S","T","U","V","W","X","Y","Z">>
Lower == <<"a","b","c","d","e","f","g","h","i","j","k","l","m",
           "n","o","p","q","r","s","t","u","v","w","x","y","z">>

\* str.lower() on one character.
LowerChar(c) ==
    IF \E i \in 1..Len(Upper) : Upper[i] = c
    THEN Lower[CHOOSE i \in 1..Len(Upper) : Upper[i] = c]
    ELSE c

\* str.lower()
ToLower(s) == [i \in 1..Len(s) |-> LowerChar(s[i])]

\* str.endswith(suffix)
EndsWith(s, suffix) ==
    /\ Len(suffix) <= Len(s)
    /\ SubSeq(s, Len(s) - Len(suffix) + 1, Len(s)) = suffix

\* str.rfind(c): the last index of c in s (1-based), 0 when absent.
RFind(s, c) ==
    IF \E i \in 1..Len(s) : s[i] = c
    THEN CHOOSE i \in 1..Len(s) :
            s[i] = c /\ \A j \in (i+1)..Len(s) : s[j] # c
    ELSE 0

\* needle in haystack (substring test)
Contains(haystack, needle) ==
    \E i \in 1..(Len(haystack) - Len(needle) + 1) :
        SubSeq(haystack, i, i + Len(needle) - 1) = needle

\* os.path.basename
basename(p) == SubSeq(p, RFind(p, "/") + 1, Len(p))

\* str.rstrip("/")
RECURSIVE RStripSlash(_)
RStripSlash(s) ==
    IF Len(s) > 0 /\ s[Len(s)] = "/"
    THEN RStripSlash(SubSeq(s, 1, Len(s) - 1))
    ELSE s

\* os.path.dirname
dirname(p) ==
    LET head == SubSeq(p, 1, RFind(p, "/"))
    IN  IF head # <<>> /\ \E i \in 1..Len(head) : head[i] # "/"
        THEN RStripSlash(head)
        ELSE head

\* os.path.splitext(p)[0]: the last dot of the last component starts the
\* extension, unless only dots precede it in that component.
splitext_root(p) ==
    LET sepIndex == RFind(p, "/")
        dotIndex == RFind(p, ".")
    IN  IF /\ dotIndex > sepIndex
           /\ \E k \in (sepIndex + 1)..(dotIndex - 1) : p[k] # "."
        THEN SubSeq(p, 1, dotIndex - 1)
        ELSE p

\* os.path.join(a, b)
join(a, b) ==
    IF Len(b) > 0 /\ b[1] = "/" THEN b
    ELSE IF a = <<>> \/ a[Len(a)] = "/" THEN a \o b
    ELSE a \o <<"/">> \o b

\* The file system's view of a relative path: repeated and trailing slashes
\* do not matter ("o//png/" names the directory "o/png").
RECURSIVE NormPath(_)
NormPath(p) ==
    IF p = <<>> THEN <<>>
    ELSE LET rest == NormPath(Tail(p))
         IN  IF p[1] = "/" /\ (rest = <<>> \/ rest[1] = "/")
             THEN rest
             ELSE <<p[1]>> \o rest

\* The path and all its ancestors: what os.makedirs(p, exist_ok=True) makes
\* sure exist.
RECURSIVE Ancestors(_)
Ancestors(p) ==
    LET q == NormPath(p)
    IN  IF q = <<>> THEN {}
        ELSE {q} \cup Ancestors(dirname(q))

DotPng == <<".", "p", "n", "g">>
DotDcm == <<".", "d", "c", "m">>
DotDicom == <<".", "d", "i", "c", "o", "m">>


----------------------------------------------------------------------------
(* Pixel windowing and normalisation: src/main.py lines 64-76. *)

Min2(a, b) == IF a <= b THEN a ELSE b
Max2(a, b) == IF a >= b THEN a ELSE b

\* ndarray.min() / ndarray.max() of a non-empty array
ArrMin(a) == CHOOSE v \in {a[i] : i \in 1..Len(a)} :
                \A j \in 1..Len(a) : v <= a[j]
ArrMax(a) == CHOOSE v \in {a[i] : i \in 1..Len(a)} :
                \A j \in 1..Len(a) : v >= a[j]

\* np.clip(image, lo, hi) is minimum(maximum(image, lo), hi), also when
\* lo > hi (every sample then becomes hi).
Clip(image, lo, hi) ==
    [i \in 1..Len(image) |-> Min2(Max2(image[i], lo), hi)]

\* Lines 65-68: the window is applied only when both parameters are given;
\* // is floor division, as \div is.
ApplyWindow(image, wc, ww) ==
    IF ~IsNone(wc) /\ ~IsNone(ww)
    THEN LET min_value == Val(wc) - (Val(ww) \div 2)
             max_value == Val(wc) + (Val(ww) \div 2)
         IN  Clip(image, min_value, max_value)
    ELSE image

\* Normalize with the minimum not subtracted from the sample.
Normalize_NoOffset(image) ==
    LET lo == ArrMin(image)
        hi == ArrMax(image)
    IN  IF hi # lo
        THEN [i \in 1..Len(image) |-> (image[i] * 255) \div (hi - lo)]
        ELSE [i \in 1..Len(image) |-> 0]

\* Lines 71-76.  The code computes (x - min) / (max - min) * 255 in float64
\* and truncates to uint8.  For integer samples the quotient is correctly
\* rounded, fl(fl(k/255) * 255) = k for every k in 0..255, and a value that
\* is not an integer is at least 1/(max - min) away from one, so the
\* truncated float equals the exact floor computed here.
Normalize(image) ==
    LET lo == ArrMin(image)
        hi == ArrMax(image)
    IN  IF hi # lo
        THEN [i \in 1..Len(image) |-> ((image[i] - lo) * 255) \div (hi - lo)]
        ELSE [i \in 1..Len(image) |-> 0]

\* ToUint8 rescaling the clipped samples over the range of the source array.
ToUint8_SourceRange(image, wc, ww) ==
    LET lo == ArrMin(image)
        hi == ArrMax(image)
        clipped == ApplyWindow(image, wc, ww)
    IN  IF hi # lo
        THEN [i \in 1..Len(image) |-> ((clipped[i] - lo) * 255) \div (hi - lo)]
        ELSE [i \in 1..Len(image) |-> 0]

\* Lines 64-76 together: the 8-bit image that is encoded.
ToUint8(image, wc, ww) == Normalize(ApplyWindow(image, wc, ww))

----------------------------------------------------------------------------
(* File contents and exceptions. *)

\* The header elements the code reads, each Optional (None: tag absent).
Tags(lat, view, imglat, sop, desc, pid) ==
    [Laterality |-> lat, ViewPosition |-> view, ImageLaterality |-> imglat,
     SOPClassUID |-> sop, AcquisitionDeviceProcessingDescription |-> desc,
     PatientID |-> pid]
NoTags == Tags(None, None, None, None, None, None)

\* What pydicom.dcmread finds at a path.  kind: "dataset" (parses),
\* "invalid" (not DICOM), "directory".  A dataset's pixel_data is None when
\* the file has no pixel data; "undecodable" marks pixel data that the
\* installed handlers cannot decode.  A path outside DOMAIN disk is missing.
DatasetWith(px, tags) ==
    [kind |-> "dataset", pixel_data |-> Some(px), decodable |-> TRUE,
     tags |-> tags]
Dataset(px) == DatasetWith(px, NoTags)
NoPixelDataset ==
    [kind |-> "dataset", pixel_data |-> None, decodable |-> TRUE,
     tags |-> NoTags]
UndecodableDataset ==
    [kind |-> "dataset", pixel_data |-> Some(<<0>>), decodable |-> FALSE,
     tags |-> NoTags]
InvalidFile ==
    [kind |-> "invalid", pixel_data |-> None, decodable |-> FALSE,
     tags |-> NoTags]
DirectoryEntry ==
    [kind |-> "directory", pixel_data |-> None, decodable |-> FALSE,
     tags |-> NoTags]

\* An exception: its class, and its message as prefix + cause + path.
Error(kind, prefix, cause, path) ==
    [kind |-> kind, prefix |-> prefix, cause |-> cause, path |-> path]
NoError == Error("", "", "", <<>>)

\* The outcome of a call: status is "none" (not called), "returned" or
\* "raised".
Returned(v) == [status |-> "returned", value |-> v, error |-> NoError]
Raised(e) == [status |-> "raised", value |-> <<>>, error |-> e]
NotCalled == [status |-> "none", value |-> <<>>, error |-> NoError]

\* os.path.exists
Exists(d, ds, ps, p) ==
    NormPath(p) \in ds \/ NormPath(p) \in DOMAIN ps \/ p \in DOMAIN d

\* os.makedirs(p, exist_ok=True)
MakeDirs(ds, p) == ds \cup Ancestors(p)


----------------------------------------------------------------------------
(* dicom_to_png: src/main.py lines 29-112, as a function of the file       *)
(* system and the arguments.  The result is the outcome together with the  *)
(* file system the call leaves behind (directories made before a failure   *)
(* stay).                                                                  *)

DefaultOutputDir == <<"o","u","t","p","u","t","/","p","n","g">>

CallResult(out, ds, ps) == [outcome |-> out, dirs |-> ds, pngs |-> ps]

\* Lines 102-104: FileNotFoundError from anywhere in the body.
FileNotFound(path) ==
    Raised(Error("FileNotFoundError", "DICOM file not found: ", "", path))

\* Lines 105-109
InvalidDicom(path) ==
    Raised(Error("InvalidDicomError", "Invalid DICOM file: ", "", path))

\* Lines 110-112: every other exception, its message kept, its class not.
\* The message is the prefix and str(e); path is the file name str(e) itself
\* carries (an OSError names its file), empty when it carries none.
Generic(cause, path) ==
    Raised(Error("Exception", "Error converting DICOM to PNG: ", cause, path))

\* Lines 59-62: the exception the inner handler raises for a dataset without
\* pixel data.  It is raised inside the outer try block.
NoPixelData == Generic("DICOM file does not contain pixel data", <<>>)

\* Lines 81-95: the path the PNG is saved to.
ResolveOutputPath(path, out) ==
    LET file_name == basename(path)
        base == IF IsNone(out) THEN DefaultOutputDir ELSE Val(out)
    IN  IF ~EndsWith(ToLower(base), DotPng)
        THEN join(base, splitext_root(file_name) \o DotPng)
        ELSE base

\* Lines 82-89: the directories made before the save.
DirsBeforeSave(d, ds, ps, out) ==
    IF IsNone(out)
    THEN IF ~Exists(d, ds, ps, DefaultOutputDir)
         THEN MakeDirs(ds, DefaultOutputDir) ELSE ds
    ELSE IF ~Exists(d, ds, ps, Val(out)) /\ ~EndsWith(ToLower(Val(out)), DotPng)
         THEN MakeDirs(ds, Val(out)) ELSE ds

\* Line 98: PIL's save opens the file for writing.
\* The file written is keyed by the normalised path; the value returned is
\* the path as resolved.
Save(image, path, resolved, ds, ps) ==
    LET file == NormPath(resolved)
    IN  IF file \in ds
        THEN CallResult(Generic("Is a directory", resolved), ds, ps)
        ELSE IF dirname(file) # <<>> /\ dirname(file) \notin ds
        THEN CallResult(FileNotFound(path), ds, ps)
        ELSE CallResult(Returned(resolved), ds,
                [q \in DOMAIN ps \cup {file} |->
                    IF q = file THEN [pixels |-> image, source |-> path]
                    ELSE ps[q]])

dicom_to_png(d, ds, ps, path, out, wc, ww) ==
    IF path \notin DOMAIN d THEN CallResult(FileNotFound(path), ds, ps)
    ELSE IF d[path].kind = "directory"
    THEN CallResult(Generic("Is a directory", path), ds, ps)
    ELSE IF d[path].kind = "invalid" THEN CallResult(InvalidDicom(path), ds, ps)
    ELSE IF IsNone(d[path].pixel_data) THEN CallResult(NoPixelData, ds, ps)
    ELSE IF ~d[path].decodable
    THEN CallResult(Generic("Unable to decode pixel data", <<>>), ds, ps)
    ELSE Save(ToUint8(Val(d[path].pixel_data), wc, ww), path,
              ResolveOutputPath(path, out), DirsBeforeSave(d, ds, ps, out), ps)

----------------------------------------------------------------------------
(* Inputs drawn. *)

Samples == -1..MaxPix
Arrays == UNION {[1..n -> Samples] : n \in 1..MaxLen}
Optional(S) == {None} \cup {Some(v) : v \in S}

d_a_dcm == <<"d","/","a",".","d","c","m">>
a_dicom == <<"a",".","d","i","c","o","m">>
d_bc_DCM == <<"d","/","b",".","c",".","D","C","M">>
InputPaths == {d_a_dcm, a_dicom, d_bc_DCM}

o_dir == <<"o">>
o_p_dir == <<"o","/","p">>
o_slash == <<"o","/">>
o_x_png == <<"o","/","x",".","p","n","g">>
x_PNG == <<"x",".","P","N","G">>
q_r_x_png == <<"q","/","r","/","x",".","p","n","g">>
OutputPaths == Optional({o_dir, o_p_dir, o_slash, o_x_png, x_PNG, q_r_x_png})

FileContents ==
    {InvalidFile, DirectoryEntry, NoPixelDataset, UndecodableDataset}
    \cup {Dataset(px) : px \in Arrays}

NoFile == [q \in {} |-> InvalidFile]
OneFile(path, content) == [q \in {path} |-> content]

CsvIdle ==
    /\ png_files = <<>>
    /\ files = FALSE
    /\ save_path = None
    /\ csvs = [q \in {} |-> [header |-> <<>>, rows |-> <<>>]]
    /\ cidx = 0
    /\ cpc = "idle"

MetaIdle ==
    /\ modfiy = FALSE
    /\ dcmodify = "ok"
    /\ calls = <<>>
    /\ results = <<>>
    /\ midx = 0
    /\ mpc = "idle"
    /\ log = <<>>

\* No command line is being run.
NoArgs ==
    [directory |-> None, file |-> <<>>, output |-> None, csv |-> FALSE,
     add_metadata |-> FALSE, delete_backup |-> FALSE]

CliIdle ==
    /\ args = NoArgs
    /\ cli = "idle"
    /\ pidx = 0
    /\ invalid_files = <<>>
    /\ backups = {}
    /\ didx = 0
    /\ dpc = "idle"
    /\ printed = <<>>

BatchIdle ==
    /\ input_directory = <<>>
    /\ output_directory = None
    /\ listing = <<>>
    /\ idx = 0
    /\ converted_files = <<>>
    /\ dicom_files = <<>>
    /\ attempts = <<>>
    /\ bpc = "idle"

----------------------------------------------------------------------------
(* One call of dicom_to_png. *)

DicomToPng ==
    /\ outcome.status = "none"
    /\ LET r == dicom_to_png(disk, dirs, pngs, dicom_path, output_path,
                             window_center, window_width)
       IN  /\ outcome' = r.outcome
           /\ dirs' = r.dirs
           /\ pngs' = r.pngs
    /\ UNCHANGED <<cliVars,
                   dicom_path, output_path, window_center, window_width,
                   disk, batchVars, metaVars, log, csvVars>>

NextConvert == DicomToPng

\* Path resolution and error kinds: every kind of input file, every shape of
\* output path, no window.
InitConvert ==
    /\ CliIdle
    /\ dicom_path \in InputPaths
    /\ output_path \in OutputPaths
    /\ window_center = None
    /\ window_width = None
    /\ disk \in {NoFile} \cup {OneFile(dicom_path, c) : c \in FileContents}
    /\ dirs \in {{}, {o_dir}}
    /\ pngs = [q \in {} |-> [pixels |-> <<>>, source |-> <<>>]]
    /\ outcome = NotCalled
    /\ BatchIdle
    /\ MetaIdle
    /\ CsvIdle

SpecConvert == InitConvert /\ [][NextConvert]_vars

\* Windowing and normalisation: every array and every window, one path.
InitNorm ==
    /\ CliIdle
    /\ dicom_path = d_a_dcm
    /\ output_path = None
    /\ window_center \in Optional(Samples)
    /\ window_width \in Optional(-1..MaxW)
    /\ disk \in {OneFile(dicom_path, Dataset(px)) : px \in Arrays}
    /\ dirs = {}
    /\ pngs = [q \in {} |-> [pixels |-> <<>>, source |-> <<>>]]
    /\ outcome = NotCalled
    /\ BatchIdle
    /\ MetaIdle
    /\ CsvIdle

SpecNorm == InitNorm /\ [][NextConvert]_vars


----------------------------------------------------------------------------
(* Claims about one conversion. *)

\* The source samples and the samples written, once the call has returned.
SourcePixels == Val(disk[dicom_path].pixel_data)
WrittenPixels == pngs[NormPath(outcome.value)].pixels
WindowGiven == ~IsNone(window_center) /\ ~IsNone(window_width)

\* C4: converting a readable DICOM file without pixel data fails, as seen by
\* the caller, with the no-pixel-data kind (the AttributeError of line 62),
\* which is none of the generic, file-not-found and invalid-format kinds.
C4_NoPixelDataKind ==
    ( /\ outcome.status # "none"
      /\ dicom_path \in DOMAIN disk
      /\ disk[dicom_path] = NoPixelDataset )
    => /\ outcome.status = "raised"
       /\ outcome.error.kind = "AttributeError"
       /\ outcome.error.kind
            \notin {"Exception", "FileNotFoundError", "InvalidDicomError"}

\* C5: without a window, every conversion of an integer array returns; the
\* output has the source's shape and samples in 0..255; when the source's
\* minimum and maximum differ the output attains 0 and 255 and is monotonic
\* in the source; when all source samples are equal the output is all zeros.
C5_Normalization ==
    (outcome.status # "none" /\ ~WindowGiven) =>
        /\ outcome.status = "returned"
        /\ Len(WrittenPixels) = Len(SourcePixels)
        /\ \A i \in 1..Len(WrittenPixels) : WrittenPixels[i] \in 0..255
        /\ ArrMin(SourcePixels) # ArrMax(SourcePixels) =>
            /\ \E i \in 1..Len(WrittenPixels) : WrittenPixels[i] = 0
            /\ \E i \in 1..Len(WrittenPixels) : WrittenPixels[i] = 255
            /\ \A i, j \in 1..Len(SourcePixels) :
                  SourcePixels[i] <= SourcePixels[j]
                    => WrittenPixels[i] <= WrittenPixels[j]
        /\ ArrMin(SourcePixels) = ArrMax(SourcePixels) =>
            \A i \in 1..Len(WrittenPixels) : WrittenPixels[i] = 0

\* A conversion without window of an array with three distinct samples, whose
\* middle sample lands strictly between 0 and 255.
C5_Witness ==
    /\ outcome.status = "returned"
    /\ ~WindowGiven
    /\ Len(SourcePixels) = 3
    /\ SourcePixels[1] < SourcePixels[2]
    /\ SourcePixels[2] < SourcePixels[3]
    /\ WrittenPixels[2] \notin {0, 255}

\* The window's bounds and the clipped sample, as the claim states them.
WindowLow == Val(window_center) - (Val(window_width) \div 2)
WindowHigh == Val(window_center) + (Val(window_width) \div 2)
ClippedSample(x) ==
    IF x < WindowLow THEN WindowLow
    ELSE IF x > WindowHigh THEN WindowHigh
    ELSE x
ExpectedClipped ==
    IF WindowGiven
    THEN [i \in 1..Len(SourcePixels) |-> ClippedSample(SourcePixels[i])]
    ELSE SourcePixels

\* C6: with both C and W given (W >= 0) every sample is clipped to
\* [C - W \div 2, C + W \div 2] and the rescale runs over the minimum and
\* maximum of the clipped array; a flat clipped array gives all zeros; with
\* only one of C, W given the source array is rescaled unclipped.
C6_Windowing ==
    ( /\ outcome.status = "returned"
      /\ (WindowGiven => Val(window_width) >= 0) )
    => LET c == ExpectedClipped
           lo == ArrMin(c)
           hi == ArrMax(c)
       IN  /\ Len(WrittenPixels) = Len(SourcePixels)
           /\ WindowGiven =>
                \A i \in 1..Len(c) : c[i] >= WindowLow /\ c[i] <= WindowHigh
           /\ lo = hi => \A i \in 1..Len(c) : WrittenPixels[i] = 0
           /\ lo # hi =>
                \A i \in 1..Len(c) :
                    WrittenPixels[i] = ((c[i] - lo) * 255) \div (hi - lo)

\* A windowed conversion where the window cuts both ends of the source range
\* and the clipped array is not flat: the output still spans 0..255.
C6_Witness ==
    /\ outcome.status = "returned"
    /\ WindowGiven
    /\ Val(window_width) >= 2
    /\ ArrMin(SourcePixels) < WindowLow
    /\ ArrMax(SourcePixels) > WindowHigh
    /\ \E i \in 1..Len(SourcePixels) : WrittenPixels[i] = 255
    /\ \E i \in 1..Len(SourcePixels) : WrittenPixels[i] = 0

\* C7: the call on a readable DICOM file with pixel data writes the PNG to
\* the default directory (no output path), to the given directory (an output
\* path not ending in .png, any casing) or to the given path (ending in
\* .png), in each case under the input's base name where a name is appended,
\* with the directories of the resolved path created, and returns that path.
C7_OutputPath ==
    ( /\ outcome.status # "none"
      /\ dicom_path \in DOMAIN disk
      /\ disk[dicom_path].kind = "dataset"
      /\ ~IsNone(disk[dicom_path].pixel_data)
      /\ disk[dicom_path].decodable )
    => LET stem == splitext_root(basename(dicom_path)) \o DotPng
           expected ==
             IF IsNone(output_path) THEN DefaultOutputDir \o <<"/">> \o stem
             ELSE IF EndsWith(ToLower(Val(output_path)), DotPng)
                  THEN Val(output_path)
             ELSE join(Val(output_path), stem)
       IN  /\ outcome.status = "returned"
           /\ outcome.value = expected
           /\ NormPath(expected) \in DOMAIN pngs
           /\ pngs[NormPath(expected)].source = dicom_path
           /\ dirname(NormPath(expected)) # <<>>
                => dirname(NormPath(expected)) \in dirs

\* The input of the call, classified as the claim classifies it.
InputMissing == dicom_path \notin DOMAIN disk
InputUnparseable == ~InputMissing /\ disk[dicom_path].kind = "invalid"

\* C12: a failed call on a missing input raises the file-not-found kind, on
\* an unparseable input the invalid-format kind, and on every other failure
\* the generic kind, whose message holds the cause's message and the path of
\* the DICOM file; the three kinds are pairwise distinct.
C12_ErrorClassification ==
    outcome.status = "raised" =>
        /\ InputMissing => outcome.error.kind = "FileNotFoundError"
        /\ InputUnparseable => outcome.error.kind = "InvalidDicomError"
        /\ (~InputMissing /\ ~InputUnparseable) =>
              /\ outcome.error.kind = "Exception"
              /\ outcome.error.cause # ""
              /\ outcome.error.path = dicom_path
        /\ outcome.error.kind
              \in {"FileNotFoundError", "InvalidDicomError", "Exception"}


----------------------------------------------------------------------------
(* batch_convert_dicom_to_png: src/main.py lines 115-161. *)

OutputRoot == <<"o","u","t","p","u","t">>
PngDir == <<"p","n","g">>

\* Line 145: file.lower().endswith((".dcm", ".dicom"))
IsDicomName(file) ==
    EndsWith(ToLower(file), DotDcm) \/ EndsWith(ToLower(file), DotDicom)

\* Lines 132-134: the output directory, defaulted from the input directory.
BatchOutputDir(indir, outdir) ==
    IF IsNone(outdir) THEN join(OutputRoot, basename(indir)) ELSE Val(outdir)

\* Line 136: os.makedirs(f"{output_directory}/png", exist_ok=True)
BatchMakeDirs(ds, indir, outdir) ==
    MakeDirs(ds, BatchOutputDir(indir, outdir) \o <<"/">> \o PngDir)

\* Line 146
BatchInputPath(indir, file) == join(indir, file)

\* Lines 147-149
BatchOutputPath(indir, outdir, file) ==
    join(join(BatchOutputDir(indir, outdir), PngDir),
         splitext_root(file) \o DotPng)

\* BatchRecord appending the input path before the conversion is known to
\* have succeeded.
BatchRecord_AppendFirst(cf, df, input_path, r) ==
    IF r.status = "returned"
    THEN <<Append(cf, r.value), Append(df, input_path)>>
    ELSE <<cf, Append(df, input_path)>>

\* Lines 150-155: both lists grow on success, neither on failure.
BatchRecord(cf, df, input_path, r) ==
    IF r.status = "returned"
    THEN <<Append(cf, r.value), Append(df, input_path)>>
    ELSE <<cf, df>>

\* Lines 136-142: up to the loop.
BatchStart ==
    /\ bpc = "start"
    /\ dirs' = BatchMakeDirs(dirs, input_directory, output_directory)
    /\ converted_files' = <<>>
    /\ dicom_files' = <<>>
    /\ bpc' = "loop"
    /\ UNCHANGED <<cliVars,
                   convVars, disk, pngs, input_directory, output_directory,
                   listing, idx, attempts, metaVars, log, csvVars>>

\* Lines 144-155: one iteration of the loop over os.listdir.
BatchStep ==
    /\ bpc = "loop"
    /\ idx < Len(listing)
    /\ idx' = idx + 1
    /\ LET file == listing[idx + 1]
       IN  IF IsDicomName(file)
           THEN LET input_path == BatchInputPath(input_directory, file)
                    out == BatchOutputPath(input_directory, output_directory,
                                           file)
                    r == dicom_to_png(disk, dirs, pngs, input_path, Some(out),
                                      None, None)
                    lists == BatchRecord(converted_files, dicom_files,
                                         input_path, r.outcome)
                IN  /\ attempts' = Append(attempts,
                          [input |-> input_path, outcome |-> r.outcome])
                    /\ converted_files' = lists[1]
                    /\ dicom_files' = lists[2]
                    /\ dirs' = r.dirs
                    /\ pngs' = r.pngs
           ELSE UNCHANGED <<attempts, converted_files, dicom_files, dirs, pngs>>
    /\ UNCHANGED <<cliVars, convVars, disk, input_directory, output_directory,
                   listing, bpc, metaVars, log, csvVars>>

\* Lines 157-161
BatchReturn ==
    /\ bpc = "loop"
    /\ idx = Len(listing)
    /\ bpc' = "done"
    /\ UNCHANGED <<cliVars, convVars, fsVars, input_directory, output_directory,
                   listing, idx, converted_files, dicom_files, attempts,
                   metaVars, log, csvVars>>

NextBatch == BatchStart \/ BatchStep \/ BatchReturn

\* Directory entries drawn: both extensions in several casings, two pairs
\* sharing a base name, and names that must not match.
a_dcm == <<"a",".","d","c","m">>
A_DCM == <<"A",".","D","C","M">>
b_Dicom == <<"b",".","D","i","c","o","m">>
a_txt == <<"a",".","t","x","t">>
adcm == <<"a","d","c","m">>
FileNames == {a_dcm, a_dicom, A_DCM, b_Dicom, a_txt, adcm}

\* The sequences of distinct names of at most n entries.
RECURSIVE Listings(_)
Listings(n) ==
    IF n = 0 THEN {<<>>}
    ELSE LET shorter == Listings(n - 1)
             longest == {l \in shorter : Len(l) = n - 1}
             Fresh(l) == {f \in FileNames : \A i \in 1..Len(l) : l[i] # f}
         IN  shorter \cup UNION {{Append(l, f) : f \in Fresh(l)} : l \in longest}

d_dir == <<"d">>
SamplePixels == <<0, 1, 3>>

\* Every entry of the directory is a file: a valid DICOM file with pixel
\* data, or one that does not parse.
BatchDisks(indir, l) ==
    [{join(indir, l[i]) : i \in 1..Len(l)}
        -> {Dataset(SamplePixels), InvalidFile}]

NoCall ==
    /\ dicom_path = <<>>
    /\ output_path = None
    /\ window_center = None
    /\ window_width = None
    /\ outcome = NotCalled

InitBatch ==
    /\ CliIdle
    /\ input_directory = d_dir
    /\ output_directory \in Optional({o_dir, o_slash})
    /\ listing \in Listings(MaxFiles)
    /\ disk \in BatchDisks(input_directory, listing)
    /\ dirs = {d_dir}
    /\ pngs = [q \in {} |-> [pixels |-> <<>>, source |-> <<>>]]
    /\ idx = 0
    /\ converted_files = <<>>
    /\ dicom_files = <<>>
    /\ attempts = <<>>
    /\ bpc = "start"
    /\ NoCall
    /\ MetaIdle
    /\ CsvIdle

SpecBatch == InitBatch /\ [][NextBatch]_vars


----------------------------------------------------------------------------
(* Claims about the batch driver. *)

\* The entries the loop has consumed that match a DICOM extension, in
\* listing order, and the attempts that returned.
MatchingSoFar == SelectSeq(SubSeq(listing, 1, idx), IsDicomName)
AttemptReturned(a) == a.outcome.status = "returned"
Successes == SelectSeq(attempts, AttemptReturned)

\* C1: whatever files fail, the loop hands every matching entry to
\* dicom_to_png exactly once and in listing order, and runs to the end of the
\* listing; the two lists have equal length, hold exactly the successful
\* conversions in that order, and the i-th output path is the path the
\* conversion of the i-th input path returned and wrote.
C1_BatchAligned ==
    /\ Len(attempts) = Len(MatchingSoFar)
    /\ \A k \in 1..Len(attempts) :
          attempts[k].input = BatchInputPath(input_directory, MatchingSoFar[k])
    /\ bpc = "done" => idx = Len(listing)
    /\ Len(converted_files) = Len(dicom_files)
    /\ Len(dicom_files) = Len(Successes)
    /\ \A i \in 1..Len(dicom_files) :
          /\ dicom_files[i] = Successes[i].input
          /\ converted_files[i] = Successes[i].outcome.value
          /\ converted_files[i] =
                BatchOutputPath(input_directory, output_directory,
                                basename(dicom_files[i]))
          /\ NormPath(converted_files[i]) \in DOMAIN pngs

\* A finished batch of three matching files of which the second failed and
\* the third was still converted.
C1_Witness ==
    /\ bpc = "done"
    /\ Len(attempts) = 3
    /\ attempts[1].outcome.status = "returned"
    /\ attempts[2].outcome.status = "raised"
    /\ attempts[3].outcome.status = "returned"
    /\ Len(dicom_files) = 2
    /\ dicom_files[2] = attempts[3].input

\* The listing's valid DICOM files: a matching name and a content that
\* converts.
ValidEntries ==
    {i \in 1..Len(listing) :
        /\ IsDicomName(listing[i])
        /\ disk[BatchInputPath(input_directory, listing[i])].kind = "dataset"}

\* C2: a finished batch over N valid DICOM files and M other files has
\* written exactly N PNG files, one of its own for each valid input, and has
\* attempted none of the files whose name does not end in .dcm or .dicom.
C2_BatchCount ==
    bpc = "done" =>
        /\ Cardinality(DOMAIN pngs) = Cardinality(ValidEntries)
        /\ \A i \in ValidEntries :
              \E q \in DOMAIN pngs :
                 pngs[q].source = BatchInputPath(input_directory, listing[i])
        /\ \A i \in 1..Len(listing) :
              ~IsDicomName(listing[i]) =>
                 \A k \in 1..Len(attempts) :
                    attempts[k].input
                        # BatchInputPath(input_directory, listing[i])


----------------------------------------------------------------------------
(* DicomTextReader: src/utils/text_reader.py. *)

\* dataset.get(tag, "")
GetTag(t) == IF IsNone(t) THEN <<>> ELSE Val(t)

MLO == <<"M","L","O">>
CC == <<"C","C">>
R_space == <<"R"," ">>
L_space == <<"L"," ">>

\* Lines 183-198: the Laterality and ViewPosition entries of the response
\* (the other six entries are plain dataset.get copies).
StudyInfo(tags) ==
    LET desc == tags.AcquisitionDeviceProcessingDescription
        truthy == ~IsNone(desc) /\ Val(desc) # <<>>
    IN  [ViewPosition |->
            IF truthy /\ Contains(Val(desc), MLO) THEN MLO
            ELSE IF truthy /\ Contains(Val(desc), CC) THEN CC
            ELSE GetTag(tags.ViewPosition),
         Laterality |->
            IF truthy /\ Contains(Val(desc), R_space) THEN <<"R">>
            ELSE IF truthy /\ Contains(Val(desc), L_space) THEN <<"L">>
            ELSE GetTag(tags.Laterality)]
NoInfo == [ViewPosition |-> <<>>, Laterality |-> <<>>]

\* A subprocess invocation: cmd is "version" (dcmodify --version) or "edit"
\* (the tag-edit command line); status is "notfound", "exit0" or "exit1".
Invocation(cmd, file, status, side, series) ==
    [cmd |-> cmd, file |-> file, status |-> status, side |-> side,
     series |-> series]

InstallGuidance == "dcmodify is not installed. Please install it first."

LogEntry(level, text, path, detail) ==
    [level |-> level, text |-> text, path |-> path, detail |-> detail]

\* What a reader's construction or method call did.
ReaderResult(out, info, cs, lg) ==
    [outcome |-> out, info |-> info, calls |-> cs, log |-> lg]

\* ToolReachable accepting a non-zero exit of the version invocation.
ToolReachable_IgnoreStatus(status) == status # "notfound"

\* Lines 126-151: the reachability check, with the result of the version
\* invocation: the tool is usable only when it is found and exits 0.
ToolReachable(status) == status = "exit0"

\* The status of "dcmodify --version" in each environment.
VersionStatus(tool) ==
    IF tool = "missing" THEN "notfound"
    ELSE IF tool = "broken" THEN "exit1"
    ELSE "exit0"

\* Lines 103-163: write_info.  rc is the exit status of the tag-edit
\* invocation and err what it wrote to stderr.
write_info(tags, filepath, laterality, view, tool, rc, err) ==
    IF IsNone(tags.ViewPosition)
    THEN \* lines 112-117: the handler reads dcm.ViewPosition again
         ReaderResult(Raised(Error("AttributeError", "", "ViewPosition", <<>>)),
                      NoInfo, <<>>, <<>>)
    ELSE IF IsNone(tags.SOPClassUID)
    THEN ReaderResult(Raised(Error("AttributeError", "", "SOPClassUID", <<>>)),
                      NoInfo, <<>>, <<>>)
    ELSE LET side_str == IF IsNone(tags.ImageLaterality) THEN laterality
                         ELSE Val(tags.ImageLaterality)
             series_str == Val(tags.SOPClassUID)
             check == Invocation("version", filepath, VersionStatus(tool),
                                 <<>>, <<>>)
             edit == Invocation("edit", filepath, rc, side_str, series_str)
         IN  IF ~ToolReachable(check.status)
             THEN ReaderResult(
                    Raised(Error("OSError", "", InstallGuidance, <<>>)),
                    NoInfo, <<check>>, <<>>)
             ELSE ReaderResult(Returned(<<>>), NoInfo, <<check, edit>>,
                    IF rc # "exit0"
                    THEN <<LogEntry("error", "Error executing command: ",
                                    filepath, ""),
                           LogEntry("error", "Error message: ", <<>>, err)>>
                    ELSE <<>>)

\* Lines 153-158: dcmodify keeps the file it edits as <file>.bak.
DotBak == <<".","b","a","k">>
BackupsAfter(bk, cs) ==
    bk \cup {cs[i].file \o DotBak :
                i \in {j \in 1..Len(cs) :
                         cs[j].cmd = "edit" /\ cs[j].status = "exit0"}}

\* Lines 165-203: get_study_info
get_study_info(tags, filepath, mod, tool, rc, err) ==
    LET response == StudyInfo(tags)
    IN  IF mod
        THEN LET w == write_info(tags, filepath, response.Laterality,
                                 response.ViewPosition, tool, rc, err)
             IN  IF w.outcome.status = "raised" THEN w
                 ELSE ReaderResult(Returned(<<>>), response, w.calls, w.log)
        ELSE ReaderResult(Returned(<<>>), response, <<>>, <<>>)

\* Lines 13-23: DicomTextReader(filepath, modfiy)
DicomTextReader(d, filepath, mod, tool, rc, err) ==
    IF filepath \notin DOMAIN d
    THEN ReaderResult(
            Raised(Error("FileNotFoundError", "", "No such file", filepath)),
            NoInfo, <<>>, <<>>)
    ELSE IF d[filepath].kind = "directory"
    THEN ReaderResult(
            Raised(Error("IsADirectoryError", "", "Is a directory", filepath)),
            NoInfo, <<>>, <<>>)
    ELSE IF d[filepath].kind = "invalid"
    THEN ReaderResult(
            Raised(Error("InvalidDicomError", "", "File is missing DICOM header",
                         <<>>)),
            NoInfo, <<>>, <<>>)
    ELSE IF mod
    THEN get_study_info(d[filepath].tags, filepath, TRUE, tool, rc, err)
    ELSE ReaderResult(Returned(<<>>), NoInfo, <<>>, <<>>)

\* The reader's use in src/main.py lines 226-228 and in text_reader.py's
\* main: construct, then call get_study_info().
ReadStudyInfo(d, filepath, mod, tool, rc, err) ==
    LET c == DicomTextReader(d, filepath, mod, tool, rc, err)
    IN  IF c.outcome.status = "raised" THEN c
        ELSE LET g == get_study_info(d[filepath].tags, filepath, FALSE,
                                     tool, rc, err)
             IN  ReaderResult(g.outcome, g.info, c.calls, c.log)

ExitStatuses == {"exit0", "exit1"}
StderrText == "E: cannot modify"
ToolStates == {"missing", "broken", "ok"}

\* One construct-and-read of a file, the tag-edit's exit status chosen by
\* the environment.
StudyInfoCall ==
    /\ mpc = "start"
    /\ \E rc \in ExitStatuses :
         LET r == ReadStudyInfo(disk, dicom_files[1], modfiy, dcmodify, rc,
                                StderrText)
         IN  /\ results' = Append(results, r)
             /\ calls' = calls \o r.calls
             /\ backups' = BackupsAfter(backups, r.calls)
             /\ log' = log \o r.log
    /\ midx' = 1
    /\ mpc' = "done"
    /\ UNCHANGED <<args, cli, pidx, invalid_files, didx, dpc, printed,
                   convVars, fsVars, input_directory, output_directory,
                   listing, idx, converted_files, dicom_files, attempts, bpc,
                   modfiy, dcmodify, csvVars>>

NextStudy == StudyInfoCall

\* Header values drawn.
Blank == <<>>
DescR_MLO == <<"R"," ","M","L","O">>
DescL_CC == <<"L"," ","C","C">>
DescRCC == <<"R","C","C">>
DescBoth == <<"L"," ","R"," ","C","C"," ","M","L","O">>
Descriptions == {Blank, DescR_MLO, DescL_CC, DescRCC, DescBoth}
SopUid == <<"1",".","2">>
PatientId == <<"P","1">>

StudyTags ==
    {Tags(lat, view, imglat, sop, desc, Some(PatientId)) :
        lat \in Optional({Blank, <<"L">>, <<"R">>}),
        view \in Optional({Blank, CC, MLO}),
        imglat \in Optional({<<"L">>}),
        sop \in Optional({SopUid}),
        desc \in Optional(Descriptions)}

InitStudy ==
    /\ CliIdle
    /\ dicom_files = <<d_a_dcm>>
    /\ disk \in {OneFile(d_a_dcm, DatasetWith(SamplePixels, t)) : t \in StudyTags}
    /\ modfiy \in BOOLEAN
    /\ dcmodify \in ToolStates
    /\ calls = <<>>
    /\ results = <<>>
    /\ midx = 0
    /\ mpc = "start"
    /\ log = <<>>
    /\ dirs = {d_dir}
    /\ pngs = [q \in {} |-> [pixels |-> <<>>, source |-> <<>>]]
    /\ input_directory = <<>>
    /\ output_directory = None
    /\ listing = <<>>
    /\ idx = 0
    /\ converted_files = <<>>
    /\ attempts = <<>>
    /\ bpc = "idle"
    /\ NoCall
    /\ CsvIdle

SpecStudy == InitStudy /\ [][NextStudy]_vars


----------------------------------------------------------------------------
(* add_metadata_to_files: src/main.py lines 250-254. *)

AddedMetadata(file) == LogEntry("info", "Added metadata to ", file, "")

\* One iteration: construct DicomTextReader(file, True), then log.  An
\* exception leaves the function.
AddMetadataStep ==
    /\ mpc = "loop"
    /\ midx < Len(dicom_files)
    /\ midx' = midx + 1
    /\ \E rc \in ExitStatuses :
         LET file == dicom_files[midx + 1]
             r == DicomTextReader(disk, file, TRUE, dcmodify, rc, StderrText)
         IN  /\ results' = Append(results, r)
             /\ calls' = calls \o r.calls
             /\ backups' = BackupsAfter(backups, r.calls)
             /\ IF r.outcome.status = "raised"
                THEN /\ log' = log \o r.log
                     /\ mpc' = "raised"
                ELSE /\ log' = (log \o r.log) \o <<AddedMetadata(file)>>
                     /\ mpc' = "loop"
    /\ UNCHANGED <<args, cli, pidx, invalid_files, didx, dpc, printed,
                   convVars, fsVars, input_directory, output_directory,
                   listing, idx, converted_files, dicom_files, attempts, bpc,
                   modfiy, dcmodify, csvVars>>

AddMetadataReturn ==
    /\ mpc = "loop"
    /\ midx = Len(dicom_files)
    /\ mpc' = "done"
    /\ UNCHANGED <<cliVars,
                   convVars, fsVars, batchVars, modfiy, dcmodify, calls,
                   results, midx, log, csvVars>>

NextMeta == AddMetadataStep \/ AddMetadataReturn

MaxMetaFiles == 2      \* most files handed to add_metadata_to_files

d_b_dcm == <<"d","/","b",".","d","c","m">>
d_c_dcm == <<"d","/","c",".","d","c","m">>
MetaPaths == {d_a_dcm, d_b_dcm, d_c_dcm}

\* The sequences of distinct paths of 1..n entries.
RECURSIVE PathLists(_)
PathLists(n) ==
    IF n = 0 THEN {<<>>}
    ELSE LET shorter == PathLists(n - 1)
             longest == {l \in shorter : Len(l) = n - 1}
             Fresh(l) == {f \in MetaPaths : \A i \in 1..Len(l) : l[i] # f}
         IN  shorter \cup UNION {{Append(l, f) : f \in Fresh(l)} : l \in longest}

\* Files as the rewrite meets them: complete headers with and without an
\* explicit image laterality, a header without ViewPosition, and a file that
\* is not DICOM.
FullTags == Tags(Some(<<"L">>), Some(CC), Some(<<"L">>), Some(SopUid),
                 Some(DescR_MLO), Some(PatientId))
InferTags == Tags(Some(Blank), Some(Blank), None, Some(SopUid),
                  Some(DescR_MLO), Some(PatientId))
NoViewTags == Tags(Some(<<"L">>), None, None, Some(SopUid), None,
                   Some(PatientId))
MetaContents ==
    {DatasetWith(SamplePixels, FullTags), DatasetWith(SamplePixels, InferTags),
     DatasetWith(SamplePixels, NoViewTags), InvalidFile}

InitMeta ==
    /\ CliIdle
    /\ dicom_files \in PathLists(MaxMetaFiles) \ {<<>>}
    /\ disk \in [{dicom_files[i] : i \in 1..Len(dicom_files)} -> MetaContents]
    /\ modfiy = TRUE
    /\ dcmodify \in ToolStates
    /\ calls = <<>>
    /\ results = <<>>
    /\ midx = 0
    /\ mpc = "loop"
    /\ log = <<>>
    /\ dirs = {d_dir}
    /\ pngs = [q \in {} |-> [pixels |-> <<>>, source |-> <<>>]]
    /\ input_directory = <<>>
    /\ output_directory = None
    /\ listing = <<>>
    /\ idx = 0
    /\ converted_files = <<>>
    /\ attempts = <<>>
    /\ bpc = "idle"
    /\ NoCall
    /\ CsvIdle

SpecMeta == InitMeta /\ [][NextMeta]_vars

----------------------------------------------------------------------------
(* Claims about the metadata reader and the rewrite. *)

StudiedTags == disk[dicom_files[1]].tags
NonBlank(t) == ~IsNone(t) /\ Val(t) # Blank

\* C3: get_study_info returns the explicit Laterality / ViewPosition value
\* whenever the tag is present and non-blank, whatever the acquisition
\* description contains; the value inferred from the description is used
\* only when the tag is blank or absent.
C3_ExplicitWins ==
    (mpc = "done" /\ results[1].outcome.status = "returned") =>
        /\ NonBlank(StudiedTags.Laterality) =>
              results[1].info.Laterality = Val(StudiedTags.Laterality)
        /\ NonBlank(StudiedTags.ViewPosition) =>
              results[1].info.ViewPosition = Val(StudiedTags.ViewPosition)

\* C9: dcmodify is never invoked unless the rewrite was requested; a
\* tag-edit invocation on a file is always preceded by a successful version
\* check for that file; a failed check (tool not found, or non-zero status)
\* raises the dependency-missing error with the install guidance and is
\* followed by no tag-edit invocation for that file.
C9_CheckBeforeEdit ==
    /\ ~modfiy => calls = <<>>
    /\ \A k \in 1..Len(calls) :
          calls[k].cmd = "edit" =>
             \E j \in 1..(k - 1) :
                /\ calls[j].cmd = "version"
                /\ calls[j].file = calls[k].file
                /\ calls[j].status = "exit0"
    /\ \A j \in 1..Len(calls) :
          (calls[j].cmd = "version" /\ calls[j].status # "exit0") =>
             /\ \A k \in 1..Len(calls) :
                   ~(calls[k].cmd = "edit" /\ calls[k].file = calls[j].file)
             /\ results[1].outcome.status = "raised"
             /\ results[1].outcome.error.kind = "OSError"
             /\ results[1].outcome.error.cause = InstallGuidance

\* A rewrite was requested, the tool is installed but its version check
\* exits non-zero: the check is the only invocation and the error is raised.
C9_Witness ==
    /\ modfiy
    /\ dcmodify = "broken"
    /\ Len(calls) = 1
    /\ calls[1].cmd = "version"
    /\ results[1].outcome.error.kind = "OSError"

\* The position in dicom_files of a file (the files are distinct).
IndexOf(file) == CHOOSE i \in 1..Len(dicom_files) : dicom_files[i] = file

\* C10: a tag-edit invocation that exits non-zero makes the rewrite of that
\* file end in an external-tool failure carrying the exit status and the
\* captured stderr, and the caller writes no "Added metadata to <file>"
\* entry for it.
C10_EditFailureSurfaced ==
    \A k \in 1..Len(calls) :
        (calls[k].cmd = "edit" /\ calls[k].status # "exit0") =>
            /\ results[IndexOf(calls[k].file)].outcome.status = "raised"
            /\ results[IndexOf(calls[k].file)].outcome.error.cause = StderrText
            /\ \A n \in 1..Len(log) : log[n] # AddedMetadata(calls[k].file)


----------------------------------------------------------------------------
(* write_to_csv: src/main.py lines 164-247. *)

OutputSlash == <<"o","u","t","p","u","t","/">>
PatientInfoCsv ==
    <<"p","a","t","i","e","n","t","_","i","n","f","o",".","c","s","v">>
DotCsv == <<".","c","s","v">>
Backslash == "\\"

\* str.removesuffix of a one-character suffix
RemoveSuffixChar(s, c) ==
    IF Len(s) > 0 /\ s[Len(s)] = c THEN SubSeq(s, 1, Len(s) - 1) ELSE s

\* str.replace("\\", "/")
SlashNormalized(s) ==
    [i \in 1..Len(s) |-> IF s[i] = Backslash THEN "/" ELSE s[i]]

\* Lines 188-190
CsvDicomDir(dir) ==
    IF Len(dir) > 0 /\ (dir[Len(dir)] = "/" \/ dir[Len(dir)] = Backslash)
    THEN RemoveSuffixChar(RemoveSuffixChar(dir, "/"), Backslash)
    ELSE dir

\* "if save_path": None and the empty string are false
Truthy(o) == ~IsNone(o) /\ Val(o) # <<>>

\* Lines 192-200
CsvFilePath(dir, flag, save) ==
    IF flag
    THEN IF Truthy(save) THEN (Val(save) \o <<"/">>) \o PatientInfoCsv
         ELSE OutputSlash \o PatientInfoCsv
    ELSE IF Truthy(save)
         THEN ((Val(save) \o <<"/">>) \o basename(CsvDicomDir(dir))) \o DotCsv
         ELSE (OutputSlash \o basename(CsvDicomDir(dir))) \o DotCsv

\* Lines 206-219
FieldNames == <<"patient_id", "exam_id", "laterality", "view", "file_path">>

\* Lines 222-224: the DICOM file whose metadata fills the row of a PNG
SiblingDicom(dir, png) ==
    join(CsvDicomDir(dir), splitext_root(basename(png)) \o DotDcm)

\* Lines 230-242
CsvRowOf(tags, png) ==
    [patient_id |-> GetTag(tags.PatientID),
     exam_id |-> 0,
     laterality |-> StudyInfo(tags).Laterality,
     view |-> StudyInfo(tags).ViewPosition,
     file_path |-> SlashNormalized(png)]

NotAvailable == <<"N","/","A">>

\* CsvAppendRow writing a placeholder row when the sibling cannot be read.
CsvAppendRow_Placeholder(rows, d, dir, png) ==
    LET r == ReadStudyInfo(d, SiblingDicom(dir, png), FALSE, "ok", "exit0", "")
    IN  IF r.outcome.status = "returned"
        THEN Append(rows, CsvRowOf(d[SiblingDicom(dir, png)].tags, png))
        ELSE Append(rows, [patient_id |-> NotAvailable, exam_id |-> 0,
                           laterality |-> NotAvailable, view |-> NotAvailable,
                           file_path |-> SlashNormalized(png)])

\* Lines 225-245: the row is written when the reader can be constructed and
\* read; any exception skips the row.
CsvAppendRow(rows, d, dir, png) ==
    LET r == ReadStudyInfo(d, SiblingDicom(dir, png), FALSE, "ok", "exit0", "")
    IN  IF r.outcome.status = "returned"
        THEN Append(rows, CsvRowOf(d[SiblingDicom(dir, png)].tags, png))
        ELSE rows

NoPngWarning ==
    LogEntry("warning", "No PNG files found for writing to CSV", <<>>, "")
RowFailed(dicom_file) ==
    LogEntry("error", "Failed to process ", dicom_file, "")
CsvSaved(path) == LogEntry("info", "CSV file saved: ", path, "")

\* Lines 184-219: the empty-list guard, the path, the output directory, the
\* open for writing (which truncates) and the header.
CsvOpen ==
    /\ cpc = "start"
    /\ IF Len(png_files) = 0
       THEN /\ log' = Append(log, NoPngWarning)
            /\ cpc' = "done"
            /\ UNCHANGED <<dirs, csvs>>
       ELSE LET path == CsvFilePath(dicom_path, files, save_path)
                ds == IF ~Exists(disk, dirs, pngs, OutputSlash)
                         /\ ~Truthy(save_path)
                      THEN MakeDirs(dirs, OutputSlash) ELSE dirs
            IN  /\ dirs' = ds
                /\ IF dirname(NormPath(path)) \in ds
                   THEN /\ csvs' = [q \in DOMAIN csvs \cup {path} |->
                                      IF q = path
                                      THEN [header |-> FieldNames, rows |-> <<>>]
                                      ELSE csvs[q]]
                        /\ cpc' = "rows"
                   ELSE /\ cpc' = "raised"
                        /\ UNCHANGED csvs
                /\ UNCHANGED log
    /\ UNCHANGED <<cliVars,
                   convVars, disk, pngs, batchVars, metaVars, png_files,
                   files, save_path, cidx>>

\* Lines 221-245: one iteration of the row loop.
CsvRow ==
    /\ cpc = "rows"
    /\ cidx < Len(png_files)
    /\ cidx' = cidx + 1
    /\ LET path == CsvFilePath(dicom_path, files, save_path)
           png == png_files[cidx + 1]
           rows == CsvAppendRow(csvs[path].rows, disk, dicom_path, png)
       IN  /\ csvs' = [csvs EXCEPT ![path].rows = rows]
           /\ log' = IF rows = csvs[path].rows
                     THEN Append(log, RowFailed(SiblingDicom(dicom_path, png)))
                     ELSE log
    /\ UNCHANGED <<cliVars,
                   convVars, fsVars, batchVars, metaVars, png_files, files,
                   save_path, cpc>>

\* Line 247
CsvClose ==
    /\ cpc = "rows"
    /\ cidx = Len(png_files)
    /\ log' = Append(log, CsvSaved(CsvFilePath(dicom_path, files, save_path)))
    /\ cpc' = "done"
    /\ UNCHANGED <<cliVars,
                   convVars, fsVars, batchVars, metaVars, png_files, files,
                   save_path, csvs, cidx>>

NextCsv == CsvOpen \/ CsvRow \/ CsvClose

MaxPngs == 2       \* longest PNG list handed to write_to_csv

o_png_a == <<"o","/","p","n","g","/","a",".","p","n","g">>
o_png_b == <<"o","/","p","n","g","/","b",".","p","n","g">>
o_bs_c == <<"o","\\","c",".","p","n","g">>
PngPaths == {o_png_a, o_png_b, o_bs_c}
d_o_bs_c_dcm == <<"d","/","o","\\","c",".","d","c","m">>
d_slash == <<"d","/">>

\* A CSV left by an earlier run.
StaleCsv == [header |-> FieldNames, rows |-> <<CsvRowOf(FullTags, x_PNG)>>]

\* The file system as main.py's callers leave it before the export: the save
\* directory exists (batch_convert_dicom_to_png line 136 and dicom_to_png
\* line 89 have made "<output>/png"); each sibling DICOM is readable, is not
\* a DICOM file, or is missing.
CsvDisks ==
    UNION {[S -> {DatasetWith(SamplePixels, FullTags), InvalidFile}] :
             S \in SUBSET {d_a_dcm, d_b_dcm, d_o_bs_c_dcm}}

InitCsv ==
    /\ CliIdle
    /\ png_files \in UNION {[1..n -> PngPaths] : n \in 0..MaxPngs}
    /\ dicom_path \in {d_dir, d_slash}
    /\ files \in BOOLEAN
    /\ save_path \in Optional({o_dir})
    /\ disk \in CsvDisks
    /\ dirs = {d_dir, o_dir, o_p_dir}
    /\ csvs \in {[q \in {} |-> StaleCsv],
                 [q \in {CsvFilePath(dicom_path, files, save_path)} |-> StaleCsv]}
    /\ cidx = 0
    /\ cpc = "start"
    /\ log = <<>>
    /\ pngs = [q \in {} |-> [pixels |-> <<>>, source |-> <<>>]]
    /\ output_path = None
    /\ window_center = None
    /\ window_width = None
    /\ outcome = NotCalled
    /\ BatchIdle
    /\ modfiy = FALSE
    /\ dcmodify = "ok"
    /\ calls = <<>>
    /\ results = <<>>
    /\ midx = 0
    /\ mpc = "idle"

SpecCsv == InitCsv /\ [][NextCsv]_vars

----------------------------------------------------------------------------
(* Claims about the CSV export. *)

Readable(file) == file \in DOMAIN disk /\ disk[file].kind = "dataset"
HasReadableSibling(png) == Readable(SiblingDicom(dicom_path, png))
RowedPngs == SelectSeq(png_files, HasReadableSibling)
CsvTarget == CsvFilePath(dicom_path, files, save_path)

\* C8: with an empty PNG list the export creates or truncates no CSV file
\* and logs a warning; with a non-empty list it completes whatever siblings
\* are unreadable, and the CSV holds the header and exactly one row, in list
\* order, for each entry whose sibling DICOM is readable.
C8_CsvRows ==
    /\ cpc # "raised"
    /\ (cpc = "done" /\ png_files = <<>>) =>
          /\ \A q \in DOMAIN csvs : csvs[q] = StaleCsv
          /\ log = <<NoPngWarning>>
    /\ (cpc = "done" /\ png_files # <<>>) =>
          /\ CsvTarget \in DOMAIN csvs
          /\ csvs[CsvTarget].header = FieldNames
          /\ Len(csvs[CsvTarget].rows) = Len(RowedPngs)
          /\ \A i \in 1..Len(RowedPngs) :
                /\ csvs[CsvTarget].rows[i].file_path
                      = SlashNormalized(RowedPngs[i])
                /\ csvs[CsvTarget].rows[i].patient_id = PatientId

\* A finished export of two entries whose first sibling is unreadable and
\* whose second is readable: one row, for the second entry.
C8_Witness ==
    /\ cpc = "done"
    /\ Len(png_files) = 2
    /\ ~HasReadableSibling(png_files[1])
    /\ HasReadableSibling(png_files[2])
    /\ Len(csvs[CsvTarget].rows) = 1
    /\ csvs[CsvTarget].rows[1].file_path = SlashNormalized(png_files[2])

----------------------------------------------------------------------------
(* The command line: main, handle_directory_conversion,                    *)
(* handle_file_conversion, process_files, create_csv and                   *)
(* delete_backup_files (src/main.py lines 257-293 and 337-411).  The run   *)
(* calls the functions above in sequence; a callee's position variable     *)
(* tells the run when it has returned or raised.                           *)

\* Lines 389-397: "if args.directory" ... "elif args.file".
DirectoryMode == Truthy(args.directory)
FileMode == ~DirectoryMode /\ Len(args.file) > 0

\* os.path.isdir and os.path.isfile
IsDir(ds, p) == NormPath(p) \in ds
IsFile(d, p) == p \in DOMAIN d /\ d[p].kind # "directory"

\* Line 278: f"{output}/png" if output else None
FileOutputPath(output) ==
    IF Truthy(output) THEN Some((Val(output) \o <<"/">>) \o PngDir) ELSE None

\* A line written to standard output.
Printed(text, detail) == [text |-> text, detail |-> detail]
InvalidDirectory == "Invalid directory path"
Usage == "Usage: python main.py"
ConvertedAll(directory) ==
    LogEntry("info", "Converted all files in directory ", directory, "")
CsvCreated ==
    LogEntry("info", "CSV file created with metadata of converted files",
             <<>>, "")
ConvertedFile(file_path) == LogEntry("info", "Converted ", file_path, "")
\* Lines 283-284; of the exception's text the entry keeps the prefix.
ConvertFailed(file_path, e) ==
    LogEntry("error", "Error converting file ", file_path, e.prefix)
InvalidPaths == "Invalid file paths: "
DeletingBackups == LogEntry("info", "Deleting backup files", <<>>, "")
DeletedBackup(f) == LogEntry("info", "Deleted ", f, "")
BackupNotFound(f) == LogEntry("warning", "Backup file not found: ", f, "")
DeletedAllBackups == LogEntry("info", "Deleted all backup files", <<>>, "")

\* Lines 387-404, 341-347 and 363: main dispatches on the arguments; the
\* directory handler rejects a path that is no directory and otherwise calls
\* the batch conversion; the file handler enters process_files.
CliStart ==
    /\ cli = "start"
    /\ IF DirectoryMode
       THEN IF ~IsDir(dirs, Val(args.directory))
            THEN /\ log' = Append(log, LogEntry("error", InvalidDirectory,
                                                <<>>, ""))
                 /\ printed' = Append(printed, Printed(InvalidDirectory, <<>>))
                 /\ cli' = "done"
                 /\ UNCHANGED <<input_directory, output_directory, bpc>>
            ELSE /\ input_directory' = Val(args.directory)
                 /\ output_directory' = args.output
                 /\ bpc' = "start"
                 /\ cli' = "convert"
                 /\ UNCHANGED <<log, printed>>
       ELSE IF FileMode
            THEN /\ cli' = "convert"
                 /\ UNCHANGED <<input_directory, output_directory, bpc, log,
                                printed>>
            ELSE /\ printed' = Append(printed, Printed(Usage, <<>>))
                 /\ cli' = "done"
                 /\ UNCHANGED <<input_directory, output_directory, bpc, log>>
    /\ UNCHANGED <<convVars, fsVars, listing, idx, converted_files,
                   dicom_files, attempts, metaVars, csvVars, args, pidx,
                   invalid_files, backups, didx, dpc>>

\* Lines 274-286: one iteration of process_files.
ProcessStep ==
    /\ cli = "convert"
    /\ FileMode
    /\ pidx < Len(args.file)
    /\ pidx' = pidx + 1
    /\ LET file_path == args.file[pidx + 1]
       IN  IF IsFile(disk, file_path)
           THEN LET r == dicom_to_png(disk, dirs, pngs, file_path,
                                      FileOutputPath(args.output), None, None)
                IN  /\ attempts' = Append(attempts,
                          [input |-> file_path, outcome |-> r.outcome])
                    /\ dirs' = r.dirs
                    /\ pngs' = r.pngs
                    /\ IF r.outcome.status = "returned"
                       THEN /\ converted_files' =
                                  Append(converted_files, r.outcome.value)
                            /\ log' = Append(log, ConvertedFile(file_path))
                            /\ UNCHANGED printed
                       ELSE /\ log' = Append(log,
                                  ConvertFailed(file_path, r.outcome.error))
                            /\ printed' = Append(printed,
                                  Printed("Error converting file ", file_path))
                            /\ UNCHANGED converted_files
                    /\ UNCHANGED invalid_files
           ELSE /\ invalid_files' = Append(invalid_files, file_path)
                /\ UNCHANGED <<attempts, dirs, pngs, converted_files, log,
                               printed>>
    /\ UNCHANGED <<convVars, disk, input_directory, output_directory, listing,
                   idx, dicom_files, bpc, metaVars, csvVars, args, cli,
                   backups, didx, dpc>>

\* The conversion stage has returned: line 161 or line 287.
ConversionDone ==
    IF DirectoryMode THEN bpc = "done" ELSE pidx = Len(args.file)

\* Lines 348 and 365: the condition under which the CSV is written.
CsvRequested ==
    IF DirectoryMode THEN args.csv
    ELSE args.csv /\ Len(converted_files) > 0

\* Lines 348-349 and 365-366, 292: the call of write_to_csv; create_csv hands
\* it the directory of the first path of the list.
CliCsv ==
    /\ cli = "convert"
    /\ ConversionDone
    /\ cli' = "csv"
    /\ IF CsvRequested
       THEN /\ png_files' = converted_files
            /\ dicom_path' = IF DirectoryMode THEN Val(args.directory)
                             ELSE dirname(args.file[1])
            /\ files' = ~DirectoryMode
            /\ save_path' = args.output
            /\ cidx' = 0
            /\ cpc' = "start"
       ELSE UNCHANGED <<png_files, dicom_path, files, save_path, cidx, cpc>>
    /\ UNCHANGED <<output_path, window_center, window_width, outcome, fsVars,
                   batchVars, metaVars, log, csvs, args, pidx, invalid_files,
                   backups, didx, dpc, printed>>

\* The list handed to add_metadata_to_files and delete_backup_files: the
\* converted inputs (lines 353, 356) or every path given (lines 369, 372).
CliFiles == IF DirectoryMode THEN dicom_files ELSE args.file

\* Lines 350-353 and 293, 368-369: after the CSV, the call of
\* add_metadata_to_files.
CliMetadata ==
    /\ cli = "csv"
    /\ cpc \in {"idle", "done"}
    /\ cli' = "metadata"
    /\ log' = IF DirectoryMode
              THEN Append(log, ConvertedAll(Val(args.directory)))
              ELSE IF cpc = "done" THEN Append(log, CsvCreated) ELSE log
    /\ IF args.add_metadata
       THEN /\ dicom_files' = CliFiles
            /\ modfiy' = TRUE
            /\ midx' = 0
            /\ mpc' = "loop"
       ELSE UNCHANGED <<dicom_files, modfiy, midx, mpc>>
    /\ UNCHANGED <<convVars, fsVars, input_directory, output_directory,
                   listing, idx, converted_files, attempts, bpc, dcmodify,
                   calls, results, csvVars, args, pidx, invalid_files,
                   backups, didx, dpc, printed>>

\* Lines 355-356 and 371-372, 259: the call of delete_backup_files.
CliBackup ==
    /\ cli = "metadata"
    /\ mpc \in {"idle", "done"}
    /\ cli' = "backup"
    /\ IF args.delete_backup
       THEN /\ dicom_files' = CliFiles
            /\ didx' = 0
            /\ dpc' = "loop"
            /\ log' = Append(log, DeletingBackups)
       ELSE UNCHANGED <<dicom_files, didx, dpc, log>>
    /\ UNCHANGED <<convVars, fsVars, input_directory, output_directory,
                   listing, idx, converted_files, attempts, bpc, metaVars,
                   csvVars, args, pidx, invalid_files, backups, printed>>

\* Lines 260-266: one iteration of delete_backup_files; a missing backup is
\* a warning.
DeleteBackupStep ==
    /\ dpc = "loop"
    /\ didx < Len(dicom_files)
    /\ didx' = didx + 1
    /\ LET backup_file == dicom_files[didx + 1] \o DotBak
       IN  IF backup_file \in backups
           THEN /\ backups' = backups \ {backup_file}
                /\ log' = Append(log, DeletedBackup(backup_file))
           ELSE /\ log' = Append(log, BackupNotFound(backup_file))
                /\ UNCHANGED backups
    /\ UNCHANGED <<convVars, fsVars, batchVars, metaVars, csvVars, args, cli,
                   pidx, invalid_files, dpc, printed>>

\* Line 267
DeleteBackupReturn ==
    /\ dpc = "loop"
    /\ didx = Len(dicom_files)
    /\ dpc' = "done"
    /\ log' = Append(log, DeletedAllBackups)
    /\ UNCHANGED <<convVars, fsVars, batchVars, metaVars, csvVars, args, cli,
                   pidx, invalid_files, backups, didx, printed>>

\* Lines 374-376 and the handler's return: the file handler reports the paths
\* that were no files.
CliReturn ==
    /\ cli = "backup"
    /\ dpc \in {"idle", "done"}
    /\ cli' = "done"
    /\ IF ~DirectoryMode /\ invalid_files # <<>>
       THEN /\ log' = Append(log, LogEntry("warning", InvalidPaths, <<>>, ""))
            /\ printed' = Append(printed, Printed(InvalidPaths, invalid_files))
       ELSE UNCHANGED <<log, printed>>
    /\ UNCHANGED <<convVars, fsVars, batchVars, metaVars, csvVars, args, pidx,
                   invalid_files, backups, didx, dpc>>

\* Neither handler nor main has a try block (lines 337-411): an exception
\* that leaves write_to_csv or add_metadata_to_files ends the run.
CliUncaught ==
    /\ cli \in {"csv", "metadata"}
    /\ "raised" \in {cpc, mpc}
    /\ cli' = "crashed"
    /\ UNCHANGED <<convVars, fsVars, batchVars, metaVars, log, csvVars, args,
                   pidx, invalid_files, backups, didx, dpc, printed>>

NextCli ==
    \/ CliStart
    \/ BatchStart \/ BatchStep \/ BatchReturn
    \/ ProcessStep
    \/ CliCsv
    \/ CsvOpen \/ CsvRow \/ CsvClose
    \/ CliMetadata
    \/ AddMetadataStep \/ AddMetadataReturn
    \/ CliBackup
    \/ DeleteBackupStep \/ DeleteBackupReturn
    \/ CliReturn
    \/ CliUncaught

MaxCliFiles == 2       \* most directory entries, and most paths given

\* Directory entries and explicit paths drawn: both extensions, a shared base
\* name, a name that is no DICOM name, and paths in two directories.
CliNames == {a_dcm, a_dicom, b_Dicom, a_txt}
e_dir == <<"e">>
x_dir == <<"x">>
e_b_dcm == <<"e","/","b",".","d","c","m">>
d_c_dicom == <<"d","/","c",".","d","i","c","o","m">>
CliPaths == {d_a_dcm, e_b_dcm, d_c_dicom}

\* The sequences of distinct members of S of at most n entries.
RECURSIVE DistinctSeqs(_, _)
DistinctSeqs(S, n) ==
    IF n = 0 THEN {<<>>}
    ELSE LET shorter == DistinctSeqs(S, n - 1)
             longest == {l \in shorter : Len(l) = n - 1}
             Fresh(l) == {f \in S : \A i \in 1..Len(l) : l[i] # f}
         IN  shorter
               \cup UNION {{Append(l, f) : f \in Fresh(l)} : l \in longest}

\* Files as a run meets them: a complete file, one whose header lacks
\* ViewPosition, and one that is not DICOM.
CliContents ==
    {DatasetWith(SamplePixels, FullTags),
     DatasetWith(SamplePixels, NoViewTags), InvalidFile}

CliFlags == [csv : BOOLEAN, add_metadata : BOOLEAN, delete_backup : BOOLEAN]
CliOutputs == Optional({o_dir})

\* What parse_arguments yields (lines 296-334): exactly one of -d and -f.
DirectoryArgs(directory, output, f) ==
    [directory |-> Some(directory), file |-> <<>>, output |-> output,
     csv |-> f.csv, add_metadata |-> f.add_metadata,
     delete_backup |-> f.delete_backup]
FileArgs(file, output, f) ==
    [directory |-> None, file |-> file, output |-> output,
     csv |-> f.csv, add_metadata |-> f.add_metadata,
     delete_backup |-> f.delete_backup]
CliArgs ==
    {DirectoryArgs(dir, o, f) :
        dir \in {d_dir, x_dir}, o \in CliOutputs, f \in CliFlags}
    \cup {FileArgs(l, o, f) :
        l \in DistinctSeqs(CliPaths, MaxCliFiles) \ {<<>>},
        o \in CliOutputs, f \in CliFlags}

\* The file system a run starts in: directory d holds the entries listed;
\* of the explicit paths any may be missing.
CliDisks ==
    IF DirectoryMode
    THEN [{join(d_dir, listing[i]) : i \in 1..Len(listing)} -> CliContents]
    ELSE UNION {[S -> CliContents] :
                  S \in SUBSET {args.file[i] : i \in 1..Len(args.file)}}

InitCli ==
    /\ args \in CliArgs
    /\ cli = "start"
    /\ listing \in IF DirectoryMode /\ Val(args.directory) = d_dir
                    THEN DistinctSeqs(CliNames, MaxCliFiles) ELSE {<<>>}
    /\ disk \in CliDisks
    /\ dirs = {d_dir, e_dir}
    /\ pngs = [q \in {} |-> [pixels |-> <<>>, source |-> <<>>]]
    /\ dcmodify \in ToolStates
    /\ input_directory = <<>>
    /\ output_directory = None
    /\ idx = 0
    /\ converted_files = <<>>
    /\ dicom_files = <<>>
    /\ attempts = <<>>
    /\ bpc = "idle"
    /\ modfiy = FALSE
    /\ calls = <<>>
    /\ results = <<>>
    /\ midx = 0
    /\ mpc = "idle"
    /\ log = <<>>
    /\ pidx = 0
    /\ invalid_files = <<>>
    /\ backups = {}
    /\ didx = 0
    /\ dpc = "idle"
    /\ printed = <<>>
    /\ NoCall
    /\ CsvIdle

SpecCli == InitCli /\ [][NextCli]_vars

----------------------------------------------------------------------------
(* Claims about a run of the command line. *)

\* C11: a run is never ended by an exception, and a run that is over has
\* consumed every input and gone through every requested later stage: the
\* CSV export, the metadata rewrite of every file, the backup cleanup of
\* every file and the report of the invalid paths.
C11_RunCompletes ==
    /\ cli # "crashed"
    /\ (cli = "done" /\ (DirectoryMode => IsDir(dirs, Val(args.directory))))
        => /\ ConversionDone
           /\ CsvRequested => cpc = "done"
           /\ args.add_metadata =>
                 mpc = "done" /\ midx = Len(CliFiles)
           /\ args.delete_backup =>
                 dpc = "done" /\ didx = Len(CliFiles)
           /\ (FileMode /\ invalid_files # <<>>) =>
                 \E k \in 1..Len(printed) :
                    /\ printed[k].text = InvalidPaths
                    /\ printed[k].detail = invalid_files

\* The rows of the run's CSV whose file_path is the given PNG path.
RowsFor(png) ==
    IF CsvTarget \in DOMAIN csvs
    THEN {k \in 1..Len(csvs[CsvTarget].rows) :
            csvs[CsvTarget].rows[k].file_path = SlashNormalized(png)}
    ELSE {}

\* C13: once a run with CSV export requested has left the export, every
\* input that was converted and whose metadata is readable has exactly one
\* row, whose file_path is the PNG path its conversion returned.
C13_CsvComplete ==
    (args.csv /\ cli \in {"metadata", "backup", "done", "crashed"}) =>
        \A i \in 1..Len(attempts) :
            ( /\ attempts[i].outcome.status = "returned"
              /\ Readable(attempts[i].input) )
            => Cardinality(RowsFor(attempts[i].outcome.value)) = 1

=============================================================================
